---- MODULE Spec2Model ----
(***************************************************************************)
(* Model of the Restaurant Reviews single-page app (src/js/app.js, the     *)
(* documented revision starting at line 991): RestaurantsModel,            *)
(* RestaurantsController and the render entry points of the four views.    *)
(*                                                                         *)
(* The browser is single threaded.  One step of the model is one task of   *)
(* the event loop together with the microtasks it schedules: the           *)
(* synchronous part of an event listener up to its first pending await, or *)
(* the settling of one fetch with every promise continuation that follows  *)
(* from it.                                                                *)
(*                                                                         *)
(* Encodings.  JavaScript strings that the code inspects character by      *)
(* character (URLs) are sequences of one-character strings.  null for a    *)
(* string-valued field is the value null; null for the selected restaurant *)
(* is the empty sequence and a selection is a one-element sequence.  An    *)
(* array-valued field that may hold undefined is a record                  *)
(* [undef, arr].  Restaurant objects are compared by value.                *)
(***************************************************************************)
EXTENDS Integers, Sequences, FiniteSets, TLC

VARIABLES
    restaurants,          \* model.restaurants
    cuisines,             \* model.cuisines (Set, in insertion order)
    neighborhoods,        \* model.neighborhoods
    selectedCuisine,      \* model.selectedCuisine
    selectedNeighborhood, \* model.selectedNeighborhood
    selectedRestaurant,   \* model.selectedRestaurant
    filteredRestaurants,  \* model._filteredRestaurants
    cuisinesSelect,       \* filterView.cuisinesSelectElement: [options, value]
    neighborhoodsSelect,  \* filterView.neighborhoodsSelectElement
    listPanel,            \* content of restaurantsView.panelElement
    markers,              \* mapView.markers
    mapSetView,           \* last map.setView(center, zoom) of mapView
    bodyDetails,          \* "details" class on the body element
    documentURL,          \* the URL of the document
    navigated,            \* whether the fragment has changed since the app started
    inflight,             \* pending model.update() calls, oldest first
    newest,               \* fetch outcome of the most recently triggered update
    last,                 \* the last step: its handler and the state of its promises
    calls,                \* view calls made by the last step, in order
    pure,                 \* the last call of a function on its own: arguments and result
    cache,                \* service worker: entries of the cache 'restaurant-reviews-cache'
    install,              \* service worker: promises of the install handler
    events,               \* service worker: requests of fetch events waiting for the network
    puts,                 \* service worker: cache.put calls that have not settled
    answer,               \* service worker: what the last respondWith promise settled with
    swLast                \* service worker: its last step

appVars == <<restaurants, cuisines, neighborhoods, selectedCuisine, selectedNeighborhood,
             selectedRestaurant, filteredRestaurants, cuisinesSelect, neighborhoodsSelect,
             listPanel, markers, mapSetView, bodyDetails, documentURL, navigated, inflight,
             newest, last, calls>>

workerVars == <<cache, install, events, puts, answer, swLast>>

vars == <<appVars, pure, workerVars>>

modelVars == <<restaurants, cuisines, neighborhoods, selectedCuisine, selectedNeighborhood,
               selectedRestaurant, filteredRestaurants>>

(***************************************************************************)
(* Bounds                                                                  *)
(***************************************************************************)
MaxInFlight == 2
MaxFragmentLen == 3   \* characters appended to the base URL
MaxId == 12           \* restaurant ids are in -MaxId..MaxId
MaxFiltered == 2      \* restaurants in an argument of the center computation
MaxRating == 6        \* ratings are in -1..MaxRating, or NaN
MaxEvents == 2        \* fetch events whose network fetch or cache.put is pending

(***************************************************************************)
(* Values                                                                  *)
(***************************************************************************)
null == "null"
NoRestaurant == << >>
Array(a) == [undef |-> FALSE, arr |-> a]
Undefined == [undef |-> TRUE, arr |-> << >>]

Restaurant(id, cuisine, neighborhood, lat, lng, ratings) ==
    [id |-> id, cuisine_type |-> cuisine, neighborhood |-> neighborhood,
     latlng |-> [lat |-> lat, lng |-> lng], reviews |-> ratings]

\* coordinates are in units of 10^-6 degree
R1 == Restaurant(1, "Asian", "Manhattan", 10000000, 10000000, <<4, 5>>)
R2 == Restaurant(2, "Pizza", "Brooklyn", 20000000, 20000000, <<3>>)
R3 == Restaurant(3, "Asian", "Brooklyn", 40000000, 10000001, << >>)
R2bad == Restaurant(2, "Pizza", "Brooklyn", 20000000, 20000000, <<6>>)

\* the documents data/restaurants.json may hold at the time of a fetch
DataA == <<R1, R2, R3>>
DataB == <<R3, R2bad>>
DataSets == {DataA, DataB}

(***************************************************************************)
(* Array and Set helpers                                                   *)
(***************************************************************************)
\* Array.prototype.map for the two property reads of update()
RECURSIVE MapField(_, _)
MapField(arr, field) ==
    IF arr = << >> THEN << >>
    ELSE <<IF field = "cuisine_type" THEN Head(arr).cuisine_type ELSE Head(arr).neighborhood>>
         \o MapField(Tail(arr), field)

\* new Set(array): the distinct values in the order of their first occurrence
RECURSIVE NewSet(_)
NewSet(arr) ==
    IF arr = << >> THEN << >>
    ELSE LET init == NewSet(SubSeq(arr, 1, Len(arr) - 1))
             value == arr[Len(arr)]
         IN  IF \E i \in 1..Len(init) : init[i] = value THEN init ELSE Append(init, value)

\* whether r is an element of the array
Contains(arr, r) == \E k \in 1..Len(arr) : arr[k] = r

\* JavaScript truthiness of a string-or-null value
Falsy(s) == s = null \/ s = ""

\* variant: the cuisine selection is not applied
CuisineTest_NotApplied(r, cuisine) == TRUE

CuisineTest(r, cuisine) == Falsy(cuisine) \/ r.cuisine_type = cuisine
\* variant: the neighborhood selection is not applied
NeighborhoodTest_NotApplied(r, neighborhood) == TRUE

NeighborhoodTest(r, neighborhood) == Falsy(neighborhood) \/ r.neighborhood = neighborhood

\* variant: restaurants the model already holds as filtered are left out
FilterRestaurants_SkipsShown(arr, cuisine, neighborhood) ==
    LET fresh(r) == /\ CuisineTest(r, cuisine)
                    /\ Falsy(neighborhood) \/ r.neighborhood = neighborhood
                    /\ \A k \in 1..Len(filteredRestaurants) : filteredRestaurants[k] # r
    IN  SelectSeq(arr, fresh)

\* the two chained Array.prototype.filter calls of update()
FilterRestaurants(arr, cuisine, neighborhood) ==
    LET byCuisine(r) == CuisineTest(r, cuisine)
        byNeighborhood(r) == NeighborhoodTest(r, neighborhood)
    IN  SelectSeq(SelectSeq(arr, byCuisine), byNeighborhood)

(***************************************************************************)
(* URL helpers                                                             *)
(***************************************************************************)
DigitValue ==
    [c \in {"0", "1", "2", "3", "4", "5", "6", "7", "8", "9"} |->
        CASE c = "0" -> 0 [] c = "1" -> 1 [] c = "2" -> 2 [] c = "3" -> 3 [] c = "4" -> 4
          [] c = "5" -> 5 [] c = "6" -> 6 [] c = "7" -> 7 [] c = "8" -> 8 [] c = "9" -> 9]

IsDigit(c) == c \in DOMAIN DigitValue

NaN == [kind |-> "NaN", val |-> 0]
Num(n) == [kind |-> "int", val |-> n]
NullId == [kind |-> "null", val |-> 0]

\* variant: the index of the first occurrence
LastIndexOf_First(s, c) ==
    IF \E i \in 1..Len(s) : s[i] = c
    THEN (CHOOSE i \in 1..Len(s) : s[i] = c /\ \A j \in 1..(i - 1) : s[j] # c) - 1
    ELSE -1

\* String.prototype.lastIndexOf, as the 0-based JavaScript index (-1: not found)
LastIndexOf(s, c) ==
    IF \E i \in 1..Len(s) : s[i] = c
    THEN (CHOOSE i \in 1..Len(s) : s[i] = c /\ \A j \in (i + 1)..Len(s) : s[j] # c) - 1
    ELSE -1

\* String.prototype.slice(start) for a 0-based start within the string
Slice(s, start) == SubSeq(s, start + 1, Len(s))

\* the value of the longest prefix of decimal digits of s, most significant first
RECURSIVE DigitsValue(_, _)
DigitsValue(s, acc) ==
    IF s = << >> \/ ~IsDigit(Head(s)) THEN acc
    ELSE DigitsValue(Tail(s), 10 * acc + DigitValue[Head(s)])

RECURSIVE TrimStart(_)
TrimStart(s) == IF s # << >> /\ Head(s) = " " THEN TrimStart(Tail(s)) ELSE s

\* parseInt(string) without a radix, for strings that carry no "0x" prefix:
\* leading white space and one sign are skipped, the leading decimal digits are
\* the value, and NaN is the result when there is no leading digit
ParseInt(str) ==
    LET t == TrimStart(str)
        signed == t # << >> /\ Head(t) \in {"-", "+"}
        body == IF signed THEN Tail(t) ELSE t
    IN  IF body = << >> \/ ~IsDigit(Head(body)) THEN NaN
        ELSE IF signed /\ Head(t) = "-" THEN Num(0 - DigitsValue(body, 0))
        ELSE Num(DigitsValue(body, 0))

\* restaurant.id === id, for an integer restaurant.id
StrictEquals(restaurantId, id) == id.kind = "int" /\ id.val = restaurantId

\* RestaurantsController._getUrlDetails
GetUrlDetails(url) ==
    LET indexOf == LastIndexOf(url, "#")
        hasHash == indexOf > -1
        hasId == hasHash /\ ~(indexOf + 1 = Len(url))
        id == IF hasId THEN ParseInt(Slice(url, indexOf + 1)) ELSE NullId
    IN  [hasHash |-> hasHash, hasId |-> hasId, id |-> id]

Letters ==
    {"a", "b", "c", "d", "e", "f", "g", "h", "i", "j", "k", "l", "m", "n", "o", "p", "q",
     "r", "s", "t", "u", "v", "w", "x", "y", "z",
     "A", "B", "C", "D", "E", "F", "G", "H", "I", "J", "K", "L", "M", "N", "O", "P", "Q",
     "R", "S", "T", "U", "V", "W", "X", "Y", "Z"}

\* the length of the scheme of an absolute URL string (the position of its ":"
\* less one), 0 when the string does not start with a scheme
SchemeLength(str) ==
    LET ends == {i \in 2..Len(str) :
                    /\ str[i] = ":"
                    /\ str[1] \in Letters
                    /\ \A j \in 2..(i - 1) : str[j] \in Letters \/ IsDigit(str[j])
                                             \/ str[j] \in {"+", "-", "."}}
    IN  IF ends = {} THEN 0 ELSE (CHOOSE i \in ends : \A k \in ends : i <= k) - 1

\* the host of scheme://host/..., empty when there is no authority part
Hostname(str) ==
    LET n == SchemeLength(str)
        from == n + 4
        stops == {i \in from..Len(str) : str[i] \in {"/", "#", "?"}}
        to == IF stops = {} THEN Len(str)
              ELSE (CHOOSE i \in stops : \A k \in stops : i <= k) - 1
    IN  IF Len(str) >= n + 3 /\ str[n + 2] = "/" /\ str[n + 3] = "/"
        THEN SubSeq(str, from, to) ELSE << >>

\* variant: a string without a scheme is resolved against the URL of the app
NewURL_ResolvesRelative(str) ==
    IF SchemeLength(str) = 0
    THEN [threw |-> FALSE, hostname |-> <<"x">>]
    ELSE [threw |-> FALSE, hostname |-> Hostname(str)]

\* new URL(str) with no base argument: a string without a scheme cannot be
\* resolved and the constructor throws a TypeError
NewURL(str) ==
    IF SchemeLength(str) = 0 THEN [threw |-> TRUE, hostname |-> << >>]
    ELSE [threw |-> FALSE, hostname |-> Hostname(str)]

\* the literal passed to new URL() in setFromUrl
AppUrlLiteral ==
    <<"/", "R", "e", "s", "t", "a", "u", "r", "a", "n", "t",
      "R", "e", "v", "i", "e", "w", "A", "p", "p", "/">>

RECURSIVE NaturalToString(_)
NaturalToString(n) ==
    LET digit == <<CHOOSE c \in DOMAIN DigitValue : DigitValue[c] = n % 10>>
    IN  IF n < 10 THEN digit ELSE NaturalToString(n \div 10) \o digit

\* variant: the sign is left out
NumberToString_NoSign(n) == IF n < 0 THEN NaturalToString(0 - n) ELSE NaturalToString(n)

\* the string conversion of an integer in a template literal
NumberToString(n) == IF n < 0 THEN <<"-">> \o NaturalToString(0 - n) ELSE NaturalToString(n)

\* Restaurant.url
RestaurantUrl(r) == <<"#">> \o NumberToString(r.id)

\* the URL the app is served at
BaseUrl == <<"h", "t", "t", "p", ":", "/", "/", "x", "/">>

\* the URLs of the 'View Details' links and of the markers, of 'Back To
\* Results', and URLs entered by hand: no fragment, an id no restaurant has,
\* a fragment that is no number
LinkUrls == {BaseUrl \o RestaurantUrl(r) : r \in {R1, R2}}
BackUrl == BaseUrl \o <<"#">>
EnteredUrls == {BaseUrl, BaseUrl \o <<"#", "7">>, BaseUrl \o <<"#", "a", "b", "c">>}
AppUrls == LinkUrls \cup {BackUrl} \cup EnteredUrls

(***************************************************************************)
(* Coordinates: exact fractions of 10^-6 degree, in lowest terms           *)
(***************************************************************************)
Abs(n) == IF n < 0 THEN 0 - n ELSE n

RECURSIVE GCD(_, _)
GCD(a, b) == IF b = 0 THEN a ELSE GCD(b, a % b)

\* variant: the quotient is cut to an integer
Ratio_Truncates(num, den) == [num |-> num \div den, den |-> 1]

Ratio(num, den) ==
    LET g == GCD(Abs(num), den) IN [num |-> num \div g, den |-> den \div g]

RECURSIVE SumLat(_)
SumLat(arr) == IF arr = << >> THEN 0 ELSE Head(arr).latlng.lat + SumLat(Tail(arr))

RECURSIVE SumLng(_)
SumLng(arr) == IF arr = << >> THEN 0 ELSE Head(arr).latlng.lng + SumLng(Tail(arr))

FallbackLat == 40722216
FallbackLng == -73987501

\* RestaurantsModel.centerCoordinatesOfFiltered, for the value filtered that
\* the filteredRestaurants getter returns: an array, or undefined
CenterCoordinatesOfFiltered(filtered) ==
    IF filtered.undef \/ Len(filtered.arr) = 0
    THEN [lat |-> Ratio(FallbackLat, 1), lng |-> Ratio(FallbackLng, 1)]
    ELSE [lat |-> Ratio(SumLat(filtered.arr), Len(filtered.arr)),
          lng |-> Ratio(SumLng(filtered.arr), Len(filtered.arr))]

(***************************************************************************)
(* Views                                                                   *)
(***************************************************************************)
Panel(kind, items, message) == [kind |-> kind, items |-> items, message |-> message]
BlankPanel == Panel("blank", << >>, "")

\* variant: a star is filled when its index is below the rating
CreateListItemReviewRatingElement_StrictlyBelow(rating) ==
    IF rating.kind # "int" THEN [threw |-> TRUE, error |-> "rating is not a number", stars |-> << >>]
    ELSE IF rating.val < 1 \/ rating.val > 5
    THEN [threw |-> TRUE, error |-> "rating must be in range 1-5", stars |-> << >>]
    ELSE [threw |-> FALSE, error |-> "",
          stars |-> [starIndex \in 1..5 |-> IF starIndex < rating.val THEN "fas" ELSE "far"]]

\* RestaurantsListPanelView.createListItemReviewRatingElement for a rating
\* that is an integer or NaN (parseInt leaves an integer as it is): the error
\* it throws, or the classes of the five stars of the element it returns
CreateListItemReviewRatingElement(rating) ==
    IF rating.kind # "int" THEN [threw |-> TRUE, error |-> "rating is not a number", stars |-> << >>]
    ELSE IF rating.val < 1 \/ rating.val > 5
    THEN [threw |-> TRUE, error |-> "rating must be in range 1-5", stars |-> << >>]
    ELSE [threw |-> FALSE, error |-> "",
          stars |-> [starIndex \in 1..5 |-> IF starIndex <= rating.val THEN "fas" ELSE "far"]]

\* createListItemReviewElement throws when the rating element of the review does
RatingThrows(rating) == CreateListItemReviewRatingElement(Num(rating)).threw

\* createListItemDetailsElement throws when the rendering of a review throws
DetailsThrows(r) == \E i \in 1..Len(r.reviews) : RatingThrows(r.reviews[i])

\* variant: without filtered restaurants the panel gets an empty list
ListRender_EmptyList(selected, filtered) ==
    IF selected # NoRestaurant
    THEN IF DetailsThrows(selected[1])
         THEN [threw |-> TRUE, panel |-> Panel("list", << >>, "")]
         ELSE [threw |-> FALSE, panel |-> Panel("details", selected, "")]
    ELSE [threw |-> FALSE, panel |-> Panel("list", filtered, "")]

\* RestaurantsListPanelView.render: the panel it leaves and whether it threw
ListRender(selected, filtered) ==
    IF selected # NoRestaurant
    THEN IF DetailsThrows(selected[1])
         THEN [threw |-> TRUE, panel |-> Panel("list", << >>, "")]
         ELSE [threw |-> FALSE, panel |-> Panel("details", selected, "")]
    ELSE IF Len(filtered) # 0
    THEN [threw |-> FALSE, panel |-> Panel("list", filtered, "")]
    ELSE [threw |-> FALSE, panel |-> Panel("message", << >>, "No Matches")]

\* variant: the markers of all filtered restaurants but the last
MapRender_DropsLast(selected, filtered) ==
    [markers |-> IF selected # NoRestaurant THEN selected
                 ELSE SubSeq(filtered, 1, Len(filtered) - 1),
     setView |-> [center |-> CenterCoordinatesOfFiltered(Array(filtered)), zoom |-> 12]]

\* MapView.render with MapView._center: the markers and the last setView call
MapRender(selected, filtered) ==
    IF selected # NoRestaurant
    THEN [markers |-> selected,
          setView |-> [center |-> [lat |-> Ratio(selected[1].latlng.lat, 1),
                                   lng |-> Ratio(selected[1].latlng.lng, 1)],
                       zoom |-> 16]]
    ELSE [markers |-> filtered,
          setView |-> [center |-> CenterCoordinatesOfFiltered(Array(filtered)), zoom |-> 12]]

\* AppView.render
AppRender(selected) == selected # NoRestaurant

\* RestaurantsFilterPanelView._renderSelectInput with the 'select all' option:
\* the options are rebuilt and the first one becomes the selected one
RenderSelectInput(values) == [options |-> <<"all">> \o values, value |-> "all"]

(***************************************************************************)
(* Bookkeeping of promises                                                 *)
(***************************************************************************)
\* outcome of a fetch; overtook: it settled while an older fetch was pending
Pending == [state |-> "pending", data |-> << >>, overtook |-> FALSE]
Fetched(data) == [state |-> "ok", data |-> data, overtook |-> FALSE]
FetchFailed == [state |-> "failed", data |-> << >>, overtook |-> FALSE]

Request(op, caller) == [op |-> op, caller |-> caller]

\* no function has been called on its own
NoCall == [fn |-> "none"]

\* no fetch event has been answered
NoAnswer == [request |-> "", body |-> "", from |-> "none"]

\* step: "start", "fetch" (a fetch settled), "change" (a select changed) or
\* "hashchange"; op: the handler the step ran or resumed; fetch: "ok" or "failed"
\* for a fetch step; update, promise: the state the step left the promise of
\* model.update() and the promise of the handler in
Last(step, op, fetch, update, promise) ==
    [step |-> step, op |-> op, fetch |-> fetch, update |-> update, promise |-> promise]

\* variant: the fetched restaurants are added to those the model holds
FetchRestaurants_Merges(outcome) ==
    IF outcome.state = "ok" THEN Array(restaurants.arr \o outcome.data) ELSE Undefined

\* RestaurantsModel._fetchRestaurants: the value its promise is fulfilled with.
\* The catch handler assigns [] to this.restaurants and returns nothing, so that
\* after a failed fetch the promise is fulfilled with undefined.
FetchRestaurants(outcome) ==
    IF outcome.state = "ok" THEN Array(outcome.data) ELSE Undefined

RemoveAt(seq, i) == SubSeq(seq, 1, i - 1) \o SubSeq(seq, i + 1, Len(seq))

\* the handler whose promise settles when a request made by op for caller does
Handler(req) == IF req.caller = "setFromUrl" THEN "setFromUrl" ELSE req.op

(***************************************************************************)
(* Initial state: the script has run to its end.  The objects are          *)
(* constructed, index.html holds the two selects with their 'all' option   *)
(* and an empty list panel, and controller.initialize() has called         *)
(* model.update(), whose fetch is pending.                                 *)
(***************************************************************************)
Init ==
    /\ restaurants = Array(<< >>)
    /\ cuisines = << >>
    /\ neighborhoods = << >>
    /\ selectedCuisine = null
    /\ selectedNeighborhood = null
    /\ selectedRestaurant = NoRestaurant
    /\ filteredRestaurants = << >>
    /\ cuisinesSelect = [options |-> <<"all">>, value |-> "all"]
    /\ neighborhoodsSelect = [options |-> <<"all">>, value |-> "all"]
    /\ listPanel = BlankPanel
    /\ markers = << >>
    /\ mapSetView = [center |-> [lat |-> Ratio(FallbackLat, 1), lng |-> Ratio(FallbackLng, 1)],
                     zoom |-> 12]
    /\ bodyDetails = FALSE
    /\ documentURL \in AppUrls
    /\ inflight = <<Request("initialize", "start")>>
    /\ newest = Pending
    /\ navigated = FALSE
    /\ last = Last("start", "initialize", "none", "pending", "pending")
    /\ calls = << >>
    /\ pure = NoCall
    /\ cache = {}
    /\ install = [waitUntil |-> "none", addAll |-> "none"]
    /\ events = << >>
    /\ puts = {}
    /\ answer = NoAnswer
    /\ swLast = [step |-> "none", request |-> ""]

(***************************************************************************)
(* RestaurantsModel.update, from the settling of its fetch on, followed by *)
(* the rest of the handler that awaits it                                  *)
(***************************************************************************)
\* the fetch of request i succeeds with the document data: update() stores it,
\* derives the option sets and the filtered restaurants and returns; then
\* initialize() renders filter, list and map, and applyFilter() list and map
FetchSucceed(i, data) ==
    LET req == inflight[i]
        filtered == FilterRestaurants(data, selectedCuisine, selectedNeighborhood)
        newCuisines == NewSet(MapField(data, "cuisine_type"))
        newNeighborhoods == NewSet(MapField(data, "neighborhood"))
        list == ListRender(selectedRestaurant, filtered)
        map == MapRender(selectedRestaurant, filtered)
        first == IF req.op = "initialize" THEN <<"filterView.render">> ELSE << >>
    IN  /\ restaurants' = FetchRestaurants(Fetched(data))
        /\ cuisines' = newCuisines
        /\ neighborhoods' = newNeighborhoods
        /\ filteredRestaurants' = filtered
        /\ UNCHANGED <<selectedCuisine, selectedNeighborhood, selectedRestaurant>>
        /\ IF req.op = "initialize"
           THEN /\ cuisinesSelect' = RenderSelectInput(newCuisines)
                /\ neighborhoodsSelect' = RenderSelectInput(newNeighborhoods)
           ELSE UNCHANGED <<cuisinesSelect, neighborhoodsSelect>>
        /\ listPanel' = list.panel
        /\ IF list.threw
           THEN /\ UNCHANGED <<markers, mapSetView>>
                /\ calls' = first \o <<"restaurantsView.render">>
           ELSE /\ markers' = map.markers
                /\ mapSetView' = map.setView
                /\ calls' = first \o <<"restaurantsView.render", "mapView.render">>
        /\ last' = Last("fetch", Handler(req), "ok", "fulfilled",
                        IF list.threw THEN "rejected" ELSE "fulfilled")
        /\ inflight' = RemoveAt(inflight, i)
        /\ newest' = IF newest.state = "pending" /\ i = Len(inflight)
                     THEN [Fetched(data) EXCEPT !.overtook = Len(inflight) > 1]
                     ELSE newest
        /\ UNCHANGED <<bodyDetails, documentURL, navigated>>

\* the fetch of request i fails (network error, or a body that is not the
\* expected JSON): the catch handler of _fetchRestaurants stores [] and returns
\* nothing, update() stores that undefined result and throws on its .map
FetchFail(i) ==
    LET req == inflight[i]
    IN  /\ restaurants' = FetchRestaurants(FetchFailed)
        /\ UNCHANGED <<cuisines, neighborhoods, selectedCuisine, selectedNeighborhood,
                       selectedRestaurant, filteredRestaurants>>
        /\ UNCHANGED <<cuisinesSelect, neighborhoodsSelect, listPanel, markers, mapSetView,
                       bodyDetails, documentURL, navigated>>
        /\ calls' = << >>
        /\ last' = Last("fetch", Handler(req), "failed", "rejected", "rejected")
        /\ inflight' = RemoveAt(inflight, i)
        /\ newest' = IF newest.state = "pending" /\ i = Len(inflight)
                     THEN [FetchFailed EXCEPT !.overtook = Len(inflight) > 1]
                     ELSE newest

(***************************************************************************)
(* RestaurantsController.applyFilter up to its await                       *)
(***************************************************************************)
\* variant: the value of the select is written as it is
SelectionOf_Untranslated(value) == value

\* manage 'select all' values
SelectionOf(value) == IF value = "all" THEN null ELSE value

ApplyFilterStart(cuisineValue, neighborhoodValue, caller) ==
    /\ Len(inflight) < MaxInFlight
    /\ selectedCuisine' = SelectionOf(cuisineValue)
    /\ selectedNeighborhood' = SelectionOf(neighborhoodValue)
    /\ inflight' = Append(inflight, Request("applyFilter", caller))
    /\ newest' = Pending

\* variant: the change listener also selects the first restaurant shown
SelectChange_SelectsFirst(cuisineValue, neighborhoodValue) ==
    /\ ApplyFilterStart(cuisineValue, neighborhoodValue, "change")
    /\ selectedRestaurant' = IF filteredRestaurants = << >> THEN NoRestaurant
                             ELSE <<filteredRestaurants[1]>>

\* the change listener of either select: () => controller.applyFilter(), which
\* writes the two selections and nothing else of the model
SelectChange(cuisineValue, neighborhoodValue) ==
    /\ ApplyFilterStart(cuisineValue, neighborhoodValue, "change")
    /\ UNCHANGED selectedRestaurant

\* the user picks another option of the cuisine select: its change listener
\* calls controller.applyFilter()
CuisineChange(value) ==
    /\ \E k \in 1..Len(cuisinesSelect.options) : cuisinesSelect.options[k] = value
    /\ value # cuisinesSelect.value
    /\ cuisinesSelect' = [cuisinesSelect EXCEPT !.value = value]
    /\ SelectChange(value, neighborhoodsSelect.value)
    /\ calls' = << >>
    /\ last' = Last("change", "applyFilter", "none", "pending", "pending")
    /\ UNCHANGED <<restaurants, cuisines, neighborhoods,
                   filteredRestaurants, neighborhoodsSelect, listPanel, markers, mapSetView,
                   bodyDetails, documentURL, navigated>>

\* the same for the neighborhood select
NeighborhoodChange(value) ==
    /\ \E k \in 1..Len(neighborhoodsSelect.options) : neighborhoodsSelect.options[k] = value
    /\ value # neighborhoodsSelect.value
    /\ neighborhoodsSelect' = [neighborhoodsSelect EXCEPT !.value = value]
    /\ SelectChange(cuisinesSelect.value, value)
    /\ calls' = << >>
    /\ last' = Last("change", "applyFilter", "none", "pending", "pending")
    /\ UNCHANGED <<restaurants, cuisines, neighborhoods,
                   filteredRestaurants, cuisinesSelect, listPanel, markers, mapSetView,
                   bodyDetails, documentURL, navigated>>

(***************************************************************************)
(* Navigation                                                              *)
(***************************************************************************)
\* Array.prototype.find by id: a one-element sequence, or empty for undefined
RECURSIVE Find(_, _)
Find(arr, id) ==
    IF arr = << >> THEN << >>
    ELSE IF StrictEquals(Head(arr).id, id) THEN <<Head(arr)>>
    ELSE Find(Tail(arr), id)

\* variant: only the empty URL is refused
SetFromUrlThrows_OnlyEmpty(url) == url = << >>

\* the checks at the head of setFromUrl: TRUE when one of them throws
SetFromUrlThrows(url) ==
    LET appUrl == NewURL(AppUrlLiteral)
        newUrl == NewURL(url)
    IN  \/ url = << >>
        \/ appUrl.threw
        \/ newUrl.threw
        \/ appUrl.hostname # newUrl.hostname

\* the setter of controller.selectedRestaurant: writes the model, then renders
\* list, app and map; a throwing list render ends it
SetSelectedRestaurant(value, after) ==
    LET list == ListRender(value, filteredRestaurants)
        map == MapRender(value, filteredRestaurants)
    IN  /\ selectedRestaurant' = value
        /\ listPanel' = list.panel
        /\ IF list.threw
           THEN /\ UNCHANGED <<bodyDetails, markers, mapSetView>>
                /\ calls' = <<"restaurantsView.render">>
           ELSE /\ bodyDetails' = AppRender(value)
                /\ markers' = map.markers
                /\ mapSetView' = map.setView
                /\ calls' = <<"restaurantsView.render", "appView.render", "mapView.render">>
                            \o after

\* variant: the handler renders the list again before it throws
Rejects_Rerenders(op) ==
    /\ last' = Last("hashchange", op, "none", "none", "rejected")
    /\ calls' = <<"restaurantsView.render">>
    /\ listPanel' = ListRender(selectedRestaurant, filteredRestaurants).panel
    /\ UNCHANGED <<modelVars, cuisinesSelect, neighborhoodsSelect, markers,
                   mapSetView, bodyDetails, inflight, newest>>

\* a handler that throws before it has written anything
Rejects(op) ==
    /\ last' = Last("hashchange", op, "none", "none", "rejected")
    /\ calls' = << >>
    /\ UNCHANGED <<modelVars, cuisinesSelect, neighborhoodsSelect, listPanel, markers,
                   mapSetView, bodyDetails, inflight, newest>>

\* RestaurantsController.setFromUrl up to its return or its await
SetFromUrl(url) ==
    LET urlDetails == GetUrlDetails(url)
        restaurant == Find(restaurants.arr, urlDetails.id)
    IN  IF SetFromUrlThrows(url) THEN Rejects("setFromUrl")
        ELSE IF urlDetails.hasId
        THEN IF restaurants.undef THEN Rejects("setFromUrl")
             ELSE IF restaurant # << >>
             THEN /\ SetSelectedRestaurant(restaurant, <<"appView.scrollToTop">>)
                  /\ last' = Last("hashchange", "setFromUrl", "none", "none",
                        IF ListRender(restaurant, filteredRestaurants).threw
                        THEN "rejected" ELSE "fulfilled")
                  /\ UNCHANGED <<restaurants, cuisines, neighborhoods, selectedCuisine,
                                 selectedNeighborhood, filteredRestaurants, cuisinesSelect,
                                 neighborhoodsSelect, inflight, newest>>
             ELSE /\ calls' = <<"appView.scrollToTop">>
                  /\ last' = Last("hashchange", "setFromUrl", "none", "none", "fulfilled")
                  /\ UNCHANGED <<modelVars, cuisinesSelect, neighborhoodsSelect, listPanel,
                                 markers, mapSetView, bodyDetails, inflight, newest>>
        ELSE /\ SetSelectedRestaurant(NoRestaurant, << >>)
             /\ ApplyFilterStart(cuisinesSelect.value, neighborhoodsSelect.value, "setFromUrl")
             /\ last' = Last("hashchange", "setFromUrl", "none", "pending", "pending")
             /\ UNCHANGED <<restaurants, cuisines, neighborhoods, filteredRestaurants,
                            cuisinesSelect, neighborhoodsSelect>>

\* variant: a click on a link or a marker selects the restaurant through the
\* controller and leaves the URL as it is
HashChange_SelectsWithoutNavigating(url) ==
    /\ url \in AppUrls
    /\ url # documentURL
    /\ SetSelectedRestaurant(Find(restaurants.arr, GetUrlDetails(url).id), << >>)
    /\ last' = Last("click", "view", "none", "none", "fulfilled")
    /\ UNCHANGED <<restaurants, cuisines, neighborhoods, selectedCuisine,
                   selectedNeighborhood, filteredRestaurants, cuisinesSelect,
                   neighborhoodsSelect, inflight, newest, documentURL, navigated>>

\* the fragment of the document URL changes (a 'View Details' link, a marker,
\* 'Back To Results', the address bar, history): the hashchange listener calls
\* controller.setFromUrl(event.newURL)
HashChange(url) ==
    /\ url \in AppUrls
    /\ url # documentURL
    /\ documentURL' = url
    /\ navigated' = TRUE
    /\ SetFromUrl(url)

Next ==
    \/ \E i \in 1..Len(inflight) : \E data \in DataSets :
            FetchSucceed(i, data) /\ UNCHANGED <<pure, workerVars>>
    \/ \E i \in 1..Len(inflight) : FetchFail(i) /\ UNCHANGED <<pure, workerVars>>
    \/ \E value \in {"all", "Asian", "Pizza"} : CuisineChange(value) /\ UNCHANGED <<pure, workerVars>>
    \/ \E value \in {"all", "Manhattan", "Brooklyn"} :
            NeighborhoodChange(value) /\ UNCHANGED <<pure, workerVars>>
    \/ \E url \in AppUrls : HashChange(url) /\ UNCHANGED <<pure, workerVars>>

Spec == Init /\ [][Next]_vars

(***************************************************************************)
(* The operations of the controller called on their own: the app, and in   *)
(* addition assignments to controller.selectedRestaurant that do not come  *)
(* from setFromUrl.                                                        *)
(***************************************************************************)
\* controller.selectedRestaurant = value, for null or a restaurant of
\* model.restaurants
SetterCall(value) ==
    /\ IF value = NoRestaurant THEN TRUE
       ELSE ~restaurants.undef /\ Contains(restaurants.arr, value[1])
    /\ SetSelectedRestaurant(value, << >>)
    /\ last' = Last("set", "selectedRestaurant", "none", "none",
                    IF ListRender(value, filteredRestaurants).threw
                    THEN "rejected" ELSE "fulfilled")
    /\ UNCHANGED <<restaurants, cuisines, neighborhoods, selectedCuisine,
                   selectedNeighborhood, filteredRestaurants, cuisinesSelect,
                   neighborhoodsSelect, inflight, newest, documentURL, navigated>>

ControllerNext ==
    \/ Next
    \/ \E value \in {NoRestaurant, <<R1>>, <<R2>>, <<R3>>, <<R2bad>>} :
            SetterCall(value) /\ UNCHANGED <<pure, workerVars>>

ControllerSpec == Init /\ [][ControllerNext]_vars

(***************************************************************************)
(* Functions that read no state, called on their own with arguments drawn  *)
(* from bounded sets.  The app stays as it started.                        *)
(***************************************************************************)
FragmentChars == {"#", "1", "2", "a"}

\* the strings over FragmentChars of at most n characters
RECURSIVE Strings(_)
Strings(n) ==
    IF n = 0 THEN {<< >>}
    ELSE LET shorter == Strings(n - 1)
         IN  shorter \cup {Append(str, c) : str \in shorter, c \in FragmentChars}

UrlArguments == {BaseUrl \o str : str \in Strings(MaxFragmentLen)}

\* the sequences over the set of at most n elements
RECURSIVE Arrays(_, _)
Arrays(set, n) ==
    IF n = 0 THEN {<< >>}
    ELSE LET shorter == Arrays(set, n - 1)
         IN  shorter \cup {Append(arr, e) : arr \in shorter, e \in set}

FilteredArguments == {Array(arr) : arr \in Arrays({R1, R2, R3}, MaxFiltered)} \cup {Undefined}

RatingArguments == {Num(n) : n \in (0 - 1)..MaxRating} \cup {NaN}

\* controller._getUrlDetails(url)
GetUrlDetailsCall(url) ==
    /\ pure' = [fn |-> "_getUrlDetails", url |-> url, urlDetails |-> GetUrlDetails(url)]
    /\ UNCHANGED <<appVars, workerVars>>

\* the url of a restaurant with this id, appended to the URL of the app as the
\* browser does for an href that is only a fragment, given to _getUrlDetails;
\* then the find of setFromUrl over an array that holds the restaurant
RestaurantUrlCall(id) ==
    LET restaurant == Restaurant(id, "Asian", "Manhattan", 10000000, 10000000, << >>)
        other == Restaurant(id + 1, "Pizza", "Brooklyn", 20000000, 20000000, << >>)
        url == BaseUrl \o RestaurantUrl(restaurant)
        urlDetails == GetUrlDetails(url)
    IN  /\ pure' = [fn |-> "url", restaurant |-> restaurant, url |-> url,
                    urlDetails |-> urlDetails,
                    found |-> Find(<<other, restaurant>>, urlDetails.id)]
        /\ UNCHANGED <<appVars, workerVars>>

\* restaurantsView.render() with these values behind the controller's getters
ListRenderCall(selected, filtered) ==
    /\ pure' = [fn |-> "restaurantsView.render", selected |-> selected,
                filtered |-> filtered, result |-> ListRender(selected, filtered)]
    /\ UNCHANGED <<appVars, workerVars>>

\* model.centerCoordinatesOfFiltered with filtered as the filtered restaurants
CenterCoordinatesOfFilteredCall(filtered) ==
    /\ pure' = [fn |-> "centerCoordinatesOfFiltered", filtered |-> filtered,
                center |-> CenterCoordinatesOfFiltered(filtered)]
    /\ UNCHANGED <<appVars, workerVars>>

\* RestaurantsListPanelView.createListItemReviewRatingElement(rating)
CreateListItemReviewRatingElementCall(rating) ==
    /\ pure' = [fn |-> "createListItemReviewRatingElement", rating |-> rating,
                element |-> CreateListItemReviewRatingElement(rating)]
    /\ UNCHANGED <<appVars, workerVars>>

FunctionNext ==
    \/ \E url \in UrlArguments : GetUrlDetailsCall(url)
    \/ \E id \in (0 - MaxId)..MaxId : RestaurantUrlCall(id)
    \/ \E filtered \in FilteredArguments : CenterCoordinatesOfFilteredCall(filtered)
    \/ \E rating \in RatingArguments : CreateListItemReviewRatingElementCall(rating)
    \/ \E selected \in {NoRestaurant, <<R1>>, <<R3>>, <<R2bad>>} :
       \E filtered \in Arrays({R1, R2, R3}, MaxFiltered) : ListRenderCall(selected, filtered)

FunctionSpec == Init /\ [][FunctionNext]_vars

(***************************************************************************)
(* The service worker (src/sw.js).  A request is its URL, a response its   *)
(* body; an entry of the cache is a request with the response stored for   *)
(* it.  One step is the dispatch of an event with the promise reactions    *)
(* that follow at once, or the settling of a network fetch, of             *)
(* cache.addAll or of cache.put.                                           *)
(***************************************************************************)
\* the argument of cache.addAll in the install handler
CoreFiles ==
    {"/index.html", "css/styles.css", "https://unpkg.com/leaflet@1.5.1/dist/leaflet.css",
     "https://unpkg.com/leaflet@1.5.1/dist/leaflet.js", "js/app.js"}

\* the requests of the page that reach the worker: a core file and the data
Requests == {"/index.html", "/RestaurantReviewsApp/data/restaurants.json"}

\* the bodies the network may answer a request with
Bodies == {"v1", "v2"}

Entry(request, body) == [request |-> request, body |-> body]

\* cache.match(request): the stored entries for the request (none, or one)
Match(request) == {entry \in cache : entry.request = request}

\* cache.put: the entry replaces the one stored for its request
Put(entries, entry) == {e \in entries : e.request # entry.request} \cup {entry}

SwStep(step, request) == [step |-> step, request |-> request]

\* the install event: caches.open() resolves, the callback calls
\* cache.addAll() and returns without its promise, so that the promise given
\* to event.waitUntil is fulfilled while addAll is pending
InstallEvent ==
    /\ install.waitUntil = "none"
    /\ install' = [waitUntil |-> "fulfilled", addAll |-> "pending"]
    /\ swLast' = SwStep("install", "")
    /\ UNCHANGED <<cache, events, puts, answer>>

\* cache.addAll has fetched and stored every core file
AddAllSucceeds(body) ==
    /\ install.addAll = "pending"
    /\ cache' = {e \in cache : e.request \notin CoreFiles}
                 \cup {Entry(file, body) : file \in CoreFiles}
    /\ install' = [install EXCEPT !.addAll = "fulfilled"]
    /\ swLast' = SwStep("addAll", "")
    /\ UNCHANGED <<events, puts, answer>>

\* one of the core files could not be fetched: cache.addAll stores none
AddAllFails ==
    /\ install.addAll = "pending"
    /\ install' = [install EXCEPT !.addAll = "rejected"]
    /\ swLast' = SwStep("addAll", "")
    /\ UNCHANGED <<cache, events, puts, answer>>

\* variant: the cache is not consulted
FetchEvent_NetworkOnly(request) ==
    /\ install.waitUntil = "fulfilled"
    /\ Len(events) + Cardinality(puts) < MaxEvents
    /\ events' = Append(events, request)
    /\ swLast' = SwStep("fetch", request)
    /\ UNCHANGED <<cache, install, puts, answer>>

\* a fetch event of the installed worker: the cached response when
\* cache.match finds one, else fetch(event.request)
FetchEvent(request) ==
    /\ install.waitUntil = "fulfilled"
    /\ swLast' = SwStep("fetch", request)
    /\ IF Match(request) # {}
       THEN /\ answer' = [request |-> request,
                          body |-> (CHOOSE entry \in Match(request) : TRUE).body,
                          from |-> "cache"]
            /\ UNCHANGED <<cache, install, events, puts>>
       ELSE /\ Len(events) + Cardinality(puts) < MaxEvents
            /\ events' = Append(events, request)
            /\ UNCHANGED <<cache, install, puts, answer>>

\* the network answers the fetch of event i: cache.put is called with a clone
\* and the response is returned
NetworkResponds(i, body) ==
    /\ puts' = puts \cup {Entry(events[i], body)}
    /\ answer' = [request |-> events[i], body |-> body, from |-> "network"]
    /\ events' = RemoveAt(events, i)
    /\ swLast' = SwStep("network", events[i])
    /\ UNCHANGED <<cache, install>>

\* the fetch of event i fails: the catch handler logs and returns nothing
NetworkFails(i) ==
    /\ answer' = [request |-> events[i], body |-> "", from |-> "undefined"]
    /\ events' = RemoveAt(events, i)
    /\ swLast' = SwStep("network", events[i])
    /\ UNCHANGED <<cache, install, puts>>

\* a cache.put call has stored its entry
PutSettles(entry) ==
    /\ entry \in puts
    /\ cache' = Put(cache, entry)
    /\ puts' = puts \ {entry}
    /\ swLast' = SwStep("put", entry.request)
    /\ UNCHANGED <<install, events, answer>>

WorkerNext ==
    \/ InstallEvent /\ UNCHANGED <<appVars, pure>>
    \/ \E body \in Bodies : AddAllSucceeds(body) /\ UNCHANGED <<appVars, pure>>
    \/ AddAllFails /\ UNCHANGED <<appVars, pure>>
    \/ \E request \in Requests : FetchEvent(request) /\ UNCHANGED <<appVars, pure>>
    \/ \E i \in 1..Len(events) : \E body \in Bodies :
            NetworkResponds(i, body) /\ UNCHANGED <<appVars, pure>>
    \/ \E i \in 1..Len(events) : NetworkFails(i) /\ UNCHANGED <<appVars, pure>>
    \/ \E entry \in puts : PutSettles(entry) /\ UNCHANGED <<appVars, pure>>

\* the page is at the URL of the app and the worker has been registered
WorkerInit == Init /\ documentURL = BaseUrl

WorkerSpec == WorkerInit /\ [][WorkerNext]_vars

(***************************************************************************)
(* Claims                                                                  *)
(***************************************************************************)
\* C1: when a fetch has failed and update() has finished, model.restaurants is
\* an empty array, neither the list fetched before nor undefined.
C1_FailedFetchLeavesEmptyList ==
    (last.step = "fetch" /\ last.fetch = "failed") => restaurants = Array(<< >>)

\* C2: a failed fetch does not reject the promise of update() nor the promise
\* of the handler that awaits it, and the renders after the await still run.
C2_FailedFetchIsAbsorbed ==
    (last.step = "fetch" /\ last.fetch = "failed") =>
        /\ last.update = "fulfilled"
        /\ last.promise = "fulfilled"
        /\ \E k \in 1..Len(calls) : calls[k] = "restaurantsView.render"

\* C3: when the most recently triggered refresh settled successfully while an
\* older one was still pending, then once nothing is pending model.restaurants
\* is the result of that most recently triggered refresh.
C3_LatestRefreshWins ==
    (inflight = << >> /\ newest.state = "ok" /\ newest.overtook) =>
        restaurants = Array(newest.data)

\* C4: when the app was started at the fragment of a restaurant of the fetched
\* data, the restaurant is selected once initialize() has completed, without a
\* navigation event.
C4_StartAtFragmentEntersDetails ==
    LET urlDetails == GetUrlDetails(documentURL)
        restaurant == Find(restaurants.arr, urlDetails.id)
    IN  (/\ ~navigated
         /\ last.step = "fetch" /\ last.op = "initialize" /\ last.fetch = "ok"
         /\ urlDetails.hasId
         /\ restaurant # << >>) => selectedRestaurant = restaurant

RECURSIVE IsSubsequence(_, _)
IsSubsequence(a, b) ==
    IF a = << >> THEN TRUE
    ELSE IF b = << >> THEN FALSE
    ELSE IF Head(a) = Head(b) THEN IsSubsequence(Tail(a), Tail(b))
    ELSE IsSubsequence(a, Tail(b))

\* C6: in every state the filtered restaurants are a subsequence of
\* model.restaurants (of no restaurants, where model.restaurants is undefined).
C6_FilteredIsSubsequence ==
    IF restaurants.undef THEN filteredRestaurants = << >>
    ELSE IsSubsequence(filteredRestaurants, restaurants.arr)

\* the filter as the claims state it: a restaurant passes when each selection
\* is absent or equals its field
Passes(r) ==
    /\ selectedCuisine = null \/ r.cuisine_type = selectedCuisine
    /\ selectedNeighborhood = null \/ r.neighborhood = selectedNeighborhood

Rendered(view) == \E k \in 1..Len(calls) : calls[k] = view

C8_FilterCorrect ==
    (last.step = "fetch" /\ last.fetch = "ok") =>
        \A k \in 1..Len(restaurants.arr) :
            Contains(filteredRestaurants, restaurants.arr[k]) <=> Passes(restaurants.arr[k])

C8_Witness ==
    /\ last.step = "fetch" /\ last.fetch = "ok"
    /\ selectedCuisine # null /\ selectedNeighborhood # null
    /\ filteredRestaurants # << >>
    /\ Len(filteredRestaurants) < Len(restaurants.arr)

\* C9: a hashchange to a fragment that is not a number is handled like one to
\* the root: nothing is thrown, the selection is cleared and applyFilter runs.
C9_GarbageFragmentIsOverview ==
    LET urlDetails == GetUrlDetails(documentURL)
    IN  (last.step = "hashchange" /\ urlDetails.hasId /\ urlDetails.id.kind = "NaN") =>
            /\ last.promise # "rejected"
            /\ selectedRestaurant = NoRestaurant
            /\ inflight # << >>
            /\ inflight[Len(inflight)] = Request("applyFilter", "setFromUrl")

\* C10: a hashchange to the fragment of a restaurant of model.restaurants
\* completes without error with that restaurant selected, list, app and map
\* rendered with it and the window scrolled to the top.
C10_KnownIdEntersDetails ==
    LET urlDetails == GetUrlDetails(documentURL)
        restaurant == Find(restaurants.arr, urlDetails.id)
    IN  (last.step = "hashchange" /\ urlDetails.hasId /\ restaurant # << >>) =>
            /\ last.promise = "fulfilled"
            /\ selectedRestaurant = restaurant
            /\ calls = <<"restaurantsView.render", "appView.render", "mapView.render",
                         "appView.scrollToTop">>
            /\ listPanel = Panel("details", restaurant, "")
            /\ markers = restaurant
            /\ bodyDetails

\* C11: a hashchange to a fragment with an id that no restaurant of
\* model.restaurants has leaves the model, the selects, the list, the map and
\* the app view as they were, and no view is rendered.
C11_UnknownIdChangesNothing ==
    [][(/\ documentURL' # documentURL
        /\ GetUrlDetails(documentURL').hasId
        /\ ~restaurants.undef
        /\ Find(restaurants.arr, GetUrlDetails(documentURL').id) = << >>)
       => /\ UNCHANGED <<modelVars, cuisinesSelect, neighborhoodsSelect, listPanel,
                         markers, mapSetView, bodyDetails>>
          /\ \A k \in 1..Len(calls') : calls'[k] = "appView.scrollToTop"]_vars

\* the overview shows a list and the fragment has just changed to #7
C11_Witness ==
    /\ last.step = "hashchange"
    /\ documentURL = BaseUrl \o <<"#", "7">>
    /\ ~restaurants.undef /\ restaurants.arr # << >>
    /\ Find(restaurants.arr, GetUrlDetails(documentURL).id) = << >>
    /\ listPanel.kind = "list" /\ markers # << >>
    /\ selectedRestaurant = NoRestaurant

\* C12: a hashchange to a URL without a fragment, or with "#" as its last
\* character, completes without error: the selection is cleared and
\* applyFilter has called model.update(), after which list and map are rendered.
C12_RootFragmentEntersOverview ==
    (last.step = "hashchange" /\ ~GetUrlDetails(documentURL).hasId) =>
        /\ last.promise = "pending"
        /\ selectedRestaurant = NoRestaurant
        /\ Contains(inflight, Request("applyFilter", "setFromUrl"))
        /\ Rendered("restaurantsView.render") /\ Rendered("mapView.render")

\* C13: neither selection of the model is the string "all".
C13_AllIsNeverASelection ==
    selectedCuisine # "all" /\ selectedNeighborhood # "all"

\* applyFilter has just run with "all" in the cuisine select and a
\* neighborhood in the other
C13_Witness ==
    /\ last.step = "change"
    /\ cuisinesSelect.value = "all" /\ neighborhoodsSelect.value # "all"
    /\ selectedCuisine = null /\ selectedNeighborhood = neighborhoodsSelect.value

Elements(seq) == {seq[k] : k \in 1..Len(seq)}

\* C15: after a successful refresh that no other refresh overlaps at its end,
\* model.restaurants is exactly the fetched list, and model.cuisines and
\* model.neighborhoods hold exactly the values of that list, each once.
C15_RefreshReplaces ==
    (/\ last.step = "fetch" /\ last.fetch = "ok"
     /\ inflight = << >> /\ newest.state = "ok" /\ ~newest.overtook) =>
        /\ restaurants = Array(newest.data)
        /\ Elements(cuisines) = {newest.data[k].cuisine_type : k \in 1..Len(newest.data)}
        /\ Elements(neighborhoods) = {newest.data[k].neighborhood : k \in 1..Len(newest.data)}
        /\ Len(cuisines) = Cardinality(Elements(cuisines))
        /\ Len(neighborhoods) = Cardinality(Elements(neighborhoods))

\* initialize() fetched the list with a Manhattan restaurant (the select still
\* offers it) and a later refresh fetched the list without one
C15_Witness ==
    /\ last.step = "fetch" /\ last.fetch = "ok" /\ last.op = "applyFilter"
    /\ inflight = << >> /\ newest.state = "ok" /\ ~newest.overtook
    /\ Contains(neighborhoodsSelect.options, "Manhattan")
    /\ restaurants = Array(DataB)
    /\ ~Contains(neighborhoods, "Manhattan")

\* C16: _getUrlDetails returns hasId false and id null for a URL without "#"
\* and for a URL that ends in "#", and hasId true only for a URL in which a
\* character follows the last "#".
C16_RootUrlsDecodeToOverview ==
    pure.fn = "_getUrlDetails" =>
        LET url == pure.url
            hashes == {k \in 1..Len(url) : url[k] = "#"}
        IN  /\ (hashes = {} \/ Len(url) \in hashes)
                  => (~pure.urlDetails.hasId /\ pure.urlDetails.id = NullId)
            /\ pure.urlDetails.hasId => (hashes # {} /\ Len(url) \notin hashes)

\* a URL with two "#", the second as its last character
C16_Witness ==
    /\ pure.fn = "_getUrlDetails"
    /\ pure.url = BaseUrl \o <<"#", "1", "#">>
    /\ ~pure.urlDetails.hasId

\* C17: _getUrlDetails of the URL of the app followed by the url of a
\* restaurant has the id of that restaurant, and find with it returns the
\* restaurant.
C17_RestaurantUrlRoundTrip ==
    pure.fn = "url" =>
        /\ pure.urlDetails.hasId
        /\ pure.urlDetails.id = Num(pure.restaurant.id)
        /\ pure.found = <<pure.restaurant>>

\* a negative id of two digits
C17_Witness ==
    /\ pure.fn = "url"
    /\ pure.restaurant.id = 0 - 12
    /\ pure.url = BaseUrl \o <<"#", "-", "1", "2">>
    /\ pure.found = <<pure.restaurant>>

C19_CenterIsMeanOrFallback ==
    pure.fn = "centerCoordinatesOfFiltered" =>
        LET arr == pure.filtered.arr
            center == pure.center
        IN  IF pure.filtered.undef \/ arr = << >>
            THEN center = [lat |-> [num |-> FallbackLat, den |-> 1],
                           lng |-> [num |-> FallbackLng, den |-> 1]]
            ELSE /\ center.lat.num * Len(arr) = center.lat.den * SumLat(arr)
                 /\ center.lng.num * Len(arr) = center.lng.den * SumLng(arr)
                 /\ arr = <<R1, R2>> =>
                        center = [lat |-> [num |-> 15000000, den |-> 1],
                                  lng |-> [num |-> 15000000, den |-> 1]]

\* two restaurants whose mean longitude is not a multiple of 10^-6 degree
C19_Witness ==
    /\ pure.fn = "centerCoordinatesOfFiltered"
    /\ pure.filtered = Array(<<R1, R3>>)
    /\ pure.center.lng = [num |-> 20000001, den |-> 2]

\* C20: createListItemReviewRatingElement throws an error with a message for a
\* rating that is not a number or is outside 1..5, and for a rating n in 1..5
\* returns five stars of which the first n, and only they, are filled.
C20_RatingElement ==
    pure.fn = "createListItemReviewRatingElement" =>
        LET rating == pure.rating
            element == pure.element
        IN  IF rating.kind = "int" /\ rating.val \in 1..5
            THEN /\ ~element.threw
                 /\ Len(element.stars) = 5
                 /\ {k \in 1..5 : element.stars[k] = "fas"} = 1..rating.val
                 /\ {k \in 1..5 : element.stars[k] = "far"} = (rating.val + 1)..5
            ELSE element.threw /\ element.error # ""

\* a rating of 5: every star is filled
C20_Witness ==
    /\ pure.fn = "createListItemReviewRatingElement"
    /\ pure.rating = Num(5)
    /\ ~pure.element.threw
    /\ \A k \in 1..5 : pure.element.stars[k] = "fas"

\* C21: the list render leaves the details of the selected restaurant; without
\* a selection one item per filtered restaurant, in their order; without a
\* selection and without filtered restaurants the message 'No Matches'.
C21_ListRenderThreeResults ==
    pure.fn = "restaurantsView.render" =>
        IF pure.selected # NoRestaurant
        THEN ~pure.result.threw /\ pure.result.panel = Panel("details", pure.selected, "")
        ELSE IF pure.filtered # << >>
        THEN ~pure.result.threw /\ pure.result.panel = Panel("list", pure.filtered, "")
        ELSE ~pure.result.threw /\ pure.result.panel = Panel("message", << >>, "No Matches")

\* C21, amended: as C21 for a selected restaurant whose reviews all have a
\* rating in 1..5; for a selected restaurant with another rating the render
\* throws and leaves an empty list.
C21_ListRenderThreeResultsOrThrows ==
    pure.fn = "restaurantsView.render" =>
        IF pure.selected # NoRestaurant
        THEN IF \E k \in 1..Len(pure.selected[1].reviews) :
                    pure.selected[1].reviews[k] \notin 1..5
             THEN pure.result.threw /\ pure.result.panel = Panel("list", << >>, "")
             ELSE ~pure.result.threw /\ pure.result.panel = Panel("details", pure.selected, "")
        ELSE IF pure.filtered # << >>
        THEN ~pure.result.threw /\ pure.result.panel = Panel("list", pure.filtered, "")
        ELSE ~pure.result.threw /\ pure.result.panel = Panel("message", << >>, "No Matches")

\* the render with a selected restaurant that has a review rated 6
C21_Witness ==
    /\ pure.fn = "restaurantsView.render"
    /\ pure.selected = <<R2bad>>
    /\ pure.result.threw

C24_FailedFetchShowsNoMatches ==
    (last.step = "fetch" /\ last.fetch = "failed") =>
        listPanel = Panel("message", << >>, "No Matches")

C26_InstallCachesCoreFiles ==
    install.waitUntil = "fulfilled" =>
        \A file \in CoreFiles : \E entry \in cache : entry.request = file

C28_LastNavigationDecides ==
    LET urlDetails == GetUrlDetails(documentURL)
        restaurant == Find(restaurants.arr, urlDetails.id)
    IN  (navigated /\ last.step = "hashchange") =>
            /\ ~urlDetails.hasId => selectedRestaurant = NoRestaurant
            /\ (urlDetails.hasId /\ restaurant # << >>) => selectedRestaurant = restaurant

\* a restaurant passes the selections that applyFilter reads from the selects
PassesSelects(r) ==
    /\ cuisinesSelect.value = "all" \/ r.cuisine_type = cuisinesSelect.value
    /\ neighborhoodsSelect.value = "all" \/ r.neighborhood = neighborhoodsSelect.value

\* C29: when the last pending refresh of applyFilter has settled successfully,
\* the filtered restaurants are those of model.restaurants that pass the
\* selections the most recent applyFilter wrote, in whatever order the
\* fetches settled.
C29_FilterUsesCurrentSelections ==
    (inflight = << >> /\ last.step = "fetch" /\ last.fetch = "ok" /\ last.op = "applyFilter") =>
        /\ selectedCuisine = SelectionOf(cuisinesSelect.value)
        /\ selectedNeighborhood = SelectionOf(neighborhoodsSelect.value)
        /\ filteredRestaurants = SelectSeq(restaurants.arr, PassesSelects)

\* the refresh triggered first settled last, with a list other than the one
\* of the refresh triggered last, and both selections are set
C29_Witness ==
    /\ inflight = << >> /\ last.step = "fetch" /\ last.fetch = "ok"
    /\ last.op = "applyFilter"
    /\ newest.state = "ok" /\ newest.overtook
    /\ restaurants # Array(newest.data)
    /\ cuisinesSelect.value # "all" /\ neighborhoodsSelect.value # "all"
    /\ filteredRestaurants # << >>

====
